---- MODULE Spec2Model ----
(***************************************************************************)
(* Model of constcat (src/src/lib.rs): the macros concat!, concat_bytes!   *)
(* and concat_slices! and the constant evaluation of their expansion.      *)
(*                                                                         *)
(* A program is a sequence of constant declarations                        *)
(*     const X: .. = concat!(..) / concat_bytes!(..) / concat_slices!(..)  *)
(* evaluated one after the other; a later declaration may name an earlier  *)
(* constant as one of its segments.  Slices are sequences of naturals; the *)
(* natural 0 is the element whose bytes are all zero.  A &str is modelled  *)
(* by its bytes.                                                           *)
(***************************************************************************)
EXTENDS Integers, Sequences, FiniteSets, TLC

\* ------------------------------------------------------------------ bounds
MaxSegs == 3        \* segments of one concat_slices! / concat_bytes! call
MaxTotal == 3       \* elements summed over the segments of such a call
MaxElem == 1        \* slice elements are 0..MaxElem
MaxTextArgs == 2    \* arguments of one enumerated concat! call
MaxStrLen == 1      \* characters of an enumerated string
MaxInt == 10        \* magnitude of the enumerated integer literals

\* --------------------------------------------------------- pure operators
RECURSIVE SumLen(_)
\* lib.rs:275  $( $s.len() + )* 0
SumLen(ss) == IF ss = <<>> THEN 0 ELSE Len(Head(ss)) + SumLen(Tail(ss))

TotalLenDropLast(ss) == IF ss = <<>> THEN 0 ELSE SumLen(Tail(ss))

\* lib.rs:275  const LEN: usize = $( $s.len() + )* 0;
TotalLen(ss) == SumLen(ss)

\* lib.rs:277  MaybeUninit::zeroed().assume_init(): LEN all-zero elements
Zeroed(n) == [p \in 1..n |-> 0]

LoopCondOffByOne(j, seg) == j + 1 < Len(seg)

\* lib.rs:281  while i < $s.len()
LoopCond(j, seg) == j < Len(seg)

WriteIndexNoBase(b, j) == j

\* lib.rs:282  arr[base + i]
WriteIndex(b, j) == b + j

AdvanceBaseByOne(b, seg) == b + 1

\* lib.rs:285  base += $s.len();
AdvanceBase(b, seg) == b + Len(seg)

EmptyArrOne == <<0>>

\* lib.rs:266  const ARR: [$T; 0] = [];
EmptyArr == <<>>

\* lib.rs:114  () => { "" }
EmptyStr == <<>>

\* lib.rs:185  () => { b"" }
EmptyBytes == <<>>

\* lib.rs:127  core::str::from_utf8_unchecked(slice): the same bytes, taken
\* for a &str without a check
FromUtf8Unchecked(bs) == bs

\* lib.rs:124  $s.as_bytes(): the bytes of a &str
AsBytes(st) == st

RECURSIVE NatToDigits(_)
\* decimal digits of a natural, as ASCII bytes
NatToDigits(n) ==
    IF n < 10 THEN <<48 + n>>
    ELSE NatToDigits(n \div 10) \o <<48 + (n % 10)>>

\* the UTF-8 encoding of one code point
Utf8Char(c) ==
    IF c < 128 THEN <<c>>
    ELSE IF c < 2048 THEN <<192 + (c \div 64), 128 + (c % 64)>>
    ELSE IF c < 65536 THEN
        <<224 + (c \div 4096), 128 + ((c \div 64) % 64), 128 + (c % 64)>>
    ELSE <<240 + (c \div 262144), 128 + ((c \div 4096) % 64),
           128 + ((c \div 64) % 64), 128 + (c % 64)>>

RECURSIVE Utf8Str(_)
\* the bytes of a string literal written with the code points cs
Utf8Str(cs) == IF cs = <<>> THEN <<>> ELSE Utf8Char(Head(cs)) \o Utf8Str(Tail(cs))

IsCont(b) == b >= 128 /\ b <= 191

RECURSIVE ValidUtf8(_)
\* what core::str::from_utf8 accepts (from_utf8_unchecked, lib.rs:127,
\* assumes it without checking)
ValidUtf8(bs) ==
    IF bs = <<>> THEN TRUE
    ELSE LET b == bs[1]
             n == Len(bs)
         IN  IF b < 128 THEN ValidUtf8(Tail(bs))
             ELSE IF b >= 194 /\ b <= 223 THEN
                 /\ n >= 2 /\ IsCont(bs[2])
                 /\ ValidUtf8(SubSeq(bs, 3, n))
             ELSE IF b >= 224 /\ b <= 239 THEN
                 /\ n >= 3 /\ IsCont(bs[2]) /\ IsCont(bs[3])
                 /\ (b = 224 => bs[2] >= 160)
                 /\ (b = 237 => bs[2] <= 159)
                 /\ ValidUtf8(SubSeq(bs, 4, n))
             ELSE IF b >= 240 /\ b <= 244 THEN
                 /\ n >= 4 /\ IsCont(bs[2]) /\ IsCont(bs[3]) /\ IsCont(bs[4])
                 /\ (b = 240 => bs[2] >= 144)
                 /\ (b = 244 => bs[2] <= 143)
                 /\ ValidUtf8(SubSeq(bs, 5, n))
             ELSE FALSE

\* ------------------------------------------------------------- arguments
\* An argument of a macro call: [kind, val], val a sequence of integers.
\*   "str"   string literal, val its code points
\*   "int"   integer literal, val = <<n>>
\*   "float" float literal ip.fd, val = <<ip, fd>>
\*   "bool"  boolean literal, val = <<0>> or <<1>>
\*   "char"  character literal, val = <<code point>>
\*   "bstr"  byte string literal, val its bytes
\*   "byte"  byte literal b'x', val = <<x>>
\*   "expr"  a constant expression, val the elements of the slice (the bytes
\*           of the &str) it evaluates to
\*   "const" the name of an earlier constant of the program, val = <<index>>
Arg(kd, v) == [kind |-> kd, val |-> v]

LiteralKinds == {"str", "int", "float", "bool", "char", "bstr", "byte"}

StdConcatBoolAsInt(a) ==
    IF a.kind = "str" THEN Utf8Str(a.val)
    ELSE IF a.kind = "int" THEN
        (IF a.val[1] < 0 THEN <<45>> \o NatToDigits(-a.val[1])
         ELSE NatToDigits(a.val[1]))
    ELSE IF a.kind = "float" THEN
        NatToDigits(a.val[1]) \o <<46>> \o NatToDigits(a.val[2])
    ELSE IF a.kind = "bool" THEN NatToDigits(a.val[1])
    ELSE Utf8Char(a.val[1])

\* lib.rs:135  core::concat!($e) of one literal: its text, as bytes
StdConcat(a) ==
    IF a.kind = "str" THEN Utf8Str(a.val)
    ELSE IF a.kind = "int" THEN
        (IF a.val[1] < 0 THEN <<45>> \o NatToDigits(-a.val[1])
         ELSE NatToDigits(a.val[1]))
    ELSE IF a.kind = "float" THEN
        NatToDigits(a.val[1]) \o <<46>> \o NatToDigits(a.val[2])
    ELSE IF a.kind = "bool" THEN
        (IF a.val[1] = 1 THEN <<116, 114, 117, 101>>
         ELSE <<102, 97, 108, 115, 101>>)
    ELSE Utf8Char(a.val[1])

\* lib.rs:200  core::concat_bytes!($e) of one byte literal
StdConcatBytes(a) == a.val

\* the value of a non-literal argument: the slice it evaluates to
EvalExpr(a, cs) == IF a.kind = "const" THEN cs[a.val[1]] ELSE a.val

\* lib.rs:133-140  _maybe_std_concat!
MaybeStdConcat(a, cs) ==
    IF a.kind \in LiteralKinds THEN StdConcat(a) ELSE EvalExpr(a, cs)

\* lib.rs:198-205  _maybe_std_concat_bytes!
MaybeStdConcatBytes(a, cs) ==
    IF a.kind \in LiteralKinds THEN StdConcatBytes(a) ELSE EvalExpr(a, cs)

\* ------------------------------------------------------------------ state
VARIABLES
    prog,     \* the constant declarations not yet expanded
    decls,    \* the declarations expanded so far, the current one last
    consts,   \* the values of the constants evaluated so far
    pc,       \* where the evaluation of the current declaration stands
    s,        \* $s: the evaluated segments handed to _concat_slices!
    init,     \* $init
    LEN,      \* const LEN
    arr,      \* let mut arr
    base,     \* let mut base
    k,        \* which repetition of $( .. )* is being evaluated (1-based)
    i,        \* let mut i
    ARR,      \* const ARR, the value the expansion yields
    writes    \* per slot of arr, how many times it was assigned

vars == <<prog, decls, consts, pc, s, init, LEN, arr, base, k, i, ARR, writes>>

Cur == decls[Len(decls)]

\* a declaration as written: const _: .. = macro!(args [,])
Call(m, h, v, zv, t, as) ==
    [macro |-> m, hasInit |-> h, init |-> v, zeroValid |-> zv,
     trailing |-> t, args |-> as]

\* ------------------------------------------------------ programs of Init
SeqsUpTo(S, n) == UNION {[1..m -> S] : m \in 0..n}

RECURSIVE PlansN(_, _, _)
\* the lists of exactly n slices over E holding at most budget elements
PlansN(E, n, budget) ==
    IF n = 0 THEN {<<>>}
    ELSE UNION {{<<sg>> \o p : p \in PlansN(E, n - 1, budget - Len(sg))} :
                  sg \in SeqsUpTo(E, budget)}

ExprArgs(p) == [j \in 1..Len(p) |-> Arg("expr", p[j])]

\* element values of $T: 0 is a value of $T only if its all-zero bytes are
Elems(zv) == IF zv THEN 0..MaxElem ELSE 1..MaxElem

\* [T]: (no initializer), or [init; T]: with an initializer
InitChoices(zv) ==
    {<<FALSE, 0>>, <<TRUE, MaxElem + 1>>} \cup (IF zv THEN {<<TRUE, 0>>} ELSE {})

Chars == {98, 233}      \* 'b' and U+00E9, one and two bytes of UTF-8
ByteVals == {65, 255}

ByteArgs ==
    {Arg("bstr", v) : v \in SeqsUpTo(ByteVals, MaxStrLen)}
    \cup {Arg("byte", <<b>>) : b \in ByteVals}
    \cup {Arg("expr", v) : v \in SeqsUpTo(ByteVals, MaxStrLen)}

\* the &str values an expression can have: the type admits valid UTF-8 only
StrValues == {Utf8Str(cs) : cs \in SeqsUpTo(Chars, MaxStrLen)}

TextArgs ==
    {Arg("str", cs) : cs \in SeqsUpTo(Chars, MaxStrLen)}
    \cup {Arg("int", <<n>>) : n \in {0, 7, MaxInt, -MaxInt}}
    \cup {Arg("float", <<1, 5>>)}
    \cup {Arg("bool", <<b>>) : b \in {0, 1}}
    \cup {Arg("char", <<c>>) : c \in Chars}
    \cup {Arg("expr", v) : v \in StrValues}

\* tests/smoke.rs:7-29  concat_smoke, TEST0 .. TEST7
TextCall(t, as) == Call("concat", FALSE, 0, TRUE, t, as)
ConcatSmoke ==
    << TextCall(FALSE, <<Arg("str", <<116, 101, 115, 116>>), Arg("int", <<10>>),
                         Arg("char", <<98>>), Arg("bool", <<1>>)>>),
       TextCall(FALSE, <<>>),
       TextCall(TRUE, <<>>),
       TextCall(FALSE, <<Arg("str", <<111, 110, 101>>)>>),
       TextCall(TRUE, <<Arg("str", <<111, 110, 101>>)>>),
       TextCall(FALSE, <<Arg("str", <<111, 110, 101>>), Arg("int", <<2>>)>>),
       TextCall(FALSE, <<Arg("str", <<98, 101, 102, 111, 114, 101, 32>>),
                         Arg("const", <<6>>),
                         Arg("str", <<32, 97, 102, 116, 101, 114>>)>>),
       TextCall(FALSE, <<Arg("str", <<98, 101, 102, 111, 114, 101, 32>>),
                         Arg("expr", <<99, 111, 110, 115, 116, 99, 97, 116>>),
                         Arg("str", <<32, 97, 102, 116, 101, 114>>)>>) >>

\* tests/smoke.rs:37-56  concat_bytes_smoke, TEST0 .. TEST6
BytesCall(t, as) == Call("concat_bytes", FALSE, 0, TRUE, t, as)
ConcatBytesSmoke ==
    << BytesCall(FALSE, <<Arg("bstr", <<116, 101, 115, 116>>), Arg("byte", <<98>>),
                          Arg("expr", <<68, 69, 70>>)>>),
       BytesCall(FALSE, <<>>),
       BytesCall(TRUE, <<>>),
       BytesCall(FALSE, <<Arg("bstr", <<111, 110, 101>>)>>),
       BytesCall(TRUE, <<Arg("bstr", <<111, 110, 101>>)>>),
       BytesCall(FALSE, <<Arg("bstr", <<111, 110, 101>>), Arg("byte", <<50>>)>>),
       BytesCall(FALSE, <<Arg("bstr", <<98, 101, 102, 111, 114, 101, 32>>),
                          Arg("const", <<6>>),
                          Arg("bstr", <<32, 97, 102, 116, 101, 114>>)>>) >>

\* tests/smoke.rs:63-76  concat_slices_smoke, TEST0 .. TEST4 ([i32]:)
SliceCall(zv, t, as) == Call("concat_slices", FALSE, 0, zv, t, as)
ConcatSlicesSmoke ==
    << SliceCall(TRUE, FALSE, <<>>),
       SliceCall(TRUE, TRUE, <<>>),
       SliceCall(TRUE, TRUE, <<Arg("expr", <<1, 2, 3>>)>>),
       SliceCall(TRUE, FALSE, <<Arg("const", <<1>>), Arg("const", <<2>>),
                                Arg("const", <<3>>)>>),
       SliceCall(TRUE, FALSE, <<Arg("expr", <<1, 2, 3>>), Arg("const", <<3>>)>>) >>

\* tests/smoke.rs:101-119  TEST12 .. TEST14 ([I<&str>]:, whose all-zero
\* bytes are no value of the type); the six elements are numbered 1..6
ConcatRefSmoke ==
    << SliceCall(FALSE, FALSE, <<Arg("expr", <<1>>), Arg("expr", <<2>>),
                                 Arg("expr", <<3>>)>>),
       SliceCall(FALSE, FALSE, <<Arg("expr", <<4, 5, 6>>)>>),
       SliceCall(FALSE, FALSE, <<Arg("const", <<1>>), Arg("const", <<2>>)>>) >>

\* five declarations over the segments a, b, c:
\*   X1 = m!(a, b)   X2 = m!(X1, c)   X3 = m!(b, c)   X4 = m!(a, X3)
\*   X5 = m!(a, b, c)
Nested(m, h, v, zv, a, b, c) ==
    << Call(m, h, v, zv, FALSE, <<a, b>>),
       Call(m, h, v, zv, FALSE, <<Arg("const", <<1>>), c>>),
       Call(m, h, v, zv, FALSE, <<b, c>>),
       Call(m, h, v, zv, FALSE, <<a, Arg("const", <<3>>)>>),
       Call(m, h, v, zv, FALSE, <<a, b, c>>) >>

\* one declaration with enumerated arguments
InitSingle ==
    \/ \E zv \in BOOLEAN, t \in BOOLEAN, n \in 0..MaxSegs :
         \E h \in InitChoices(zv), p \in PlansN(Elems(zv), n, MaxTotal) :
            prog = <<Call("concat_slices", h[1], h[2], zv, t, ExprArgs(p))>>
    \/ \E t \in BOOLEAN, n \in 0..MaxTextArgs : \E as \in [1..n -> ByteArgs] :
            prog = <<BytesCall(t, as)>>
    \/ \E t \in BOOLEAN, n \in 0..MaxTextArgs : \E as \in [1..n -> TextArgs] :
            prog = <<TextCall(t, as)>>

\* the declarations of tests/smoke.rs
InitSmoke ==
    prog \in {ConcatSmoke, ConcatBytesSmoke, ConcatSlicesSmoke, ConcatRefSmoke}

\* declarations whose segments are constants made by earlier declarations
InitNested ==
    \/ \E zv \in BOOLEAN :
         \E h \in InitChoices(zv), p \in PlansN(Elems(zv), 3, MaxTotal) :
            prog = Nested("concat_slices", h[1], h[2], zv,
                          Arg("expr", p[1]), Arg("expr", p[2]), Arg("expr", p[3]))
    \/ \E as \in [1..3 -> TextArgs] :
            prog = Nested("concat", FALSE, 0, TRUE, as[1], as[2], as[3])
    \/ \E as \in [1..3 -> ByteArgs] :
            prog = Nested("concat_bytes", FALSE, 0, TRUE, as[1], as[2], as[3])

Init ==
    /\ InitSingle \/ InitSmoke \/ InitNested
    /\ decls = <<>>
    /\ consts = <<>>
    /\ pc = "call"
    /\ s = <<>> /\ init = 0 /\ LEN = 0 /\ arr = <<>> /\ base = 0
    /\ k = 0 /\ i = 0 /\ ARR = <<>> /\ writes = <<>>

\* ---------------------------------------------------------------- actions
\* lib.rs:252-260  concat_slices!: `$(,)?` takes the trailing comma; with no
\* initializer, `0 as $T` is passed
ConcatSlices ==
    /\ pc = "call" /\ prog # <<>>
    /\ Head(prog).macro = "concat_slices"
    /\ LET c == Head(prog) IN
        /\ decls' = Append(decls, c)
        /\ init' = IF c.hasInit THEN c.init ELSE 0
        /\ s' = [j \in 1..Len(c.args) |-> EvalExpr(c.args[j], consts)]
    /\ prog' = Tail(prog)
    /\ pc' = "slices"
    /\ UNCHANGED <<consts, LEN, arr, base, k, i, ARR, writes>>

\* lib.rs:105-129  concat!, _concat!
Concat ==
    /\ pc = "call" /\ prog # <<>>
    /\ Head(prog).macro = "concat"
    /\ LET c == Head(prog) IN
        /\ decls' = Append(decls, c)
        /\ IF c.args = <<>>
           THEN /\ ARR' = EmptyStr
                /\ pc' = "ret"
                /\ UNCHANGED <<s, init>>
           ELSE /\ s' = [j \in 1..Len(c.args) |->
                            AsBytes(MaybeStdConcat(c.args[j], consts))]
                /\ init' = 0
                /\ pc' = "slices"
                /\ UNCHANGED ARR
    /\ prog' = Tail(prog)
    /\ UNCHANGED <<consts, LEN, arr, base, k, i, writes>>

\* lib.rs:176-194  concat_bytes!, _concat_bytes!
ConcatBytes ==
    /\ pc = "call" /\ prog # <<>>
    /\ Head(prog).macro = "concat_bytes"
    /\ LET c == Head(prog) IN
        /\ decls' = Append(decls, c)
        /\ IF c.args = <<>>
           THEN /\ ARR' = EmptyBytes
                /\ pc' = "ret"
                /\ UNCHANGED <<s, init>>
           ELSE /\ s' = [j \in 1..Len(c.args) |->
                            MaybeStdConcatBytes(c.args[j], consts)]
                /\ init' = 0
                /\ pc' = "slices"
                /\ UNCHANGED ARR
    /\ prog' = Tail(prog)
    /\ UNCHANGED <<consts, LEN, arr, base, k, i, writes>>

\* lib.rs:265-268  _concat_slices! with no segment
ConcatSlicesEmpty ==
    /\ pc = "slices" /\ s = <<>>
    /\ ARR' = EmptyArr
    /\ pc' = "ret"
    /\ UNCHANGED <<prog, decls, consts, s, init, LEN, arr, base, k, i, writes>>

\* lib.rs:270-275  _concat_slices! with segments: const LEN
ComputeLen ==
    /\ pc = "slices" /\ s # <<>>
    /\ LEN' = TotalLen(s)
    /\ pc' = "alloc"
    /\ UNCHANGED <<prog, decls, consts, s, init, arr, base, k, i, ARR, writes>>

\* lib.rs:277-278  the buffer, all bytes zero, and base = 0
Alloc ==
    /\ pc = "alloc"
    /\ arr' = Zeroed(LEN)
    /\ writes' = [p \in 1..LEN |-> 0]
    /\ base' = 0
    /\ k' = 1
    /\ pc' = "seg"
    /\ UNCHANGED <<prog, decls, consts, s, init, LEN, i, ARR>>

\* lib.rs:277  assume_init() of zeroed memory is undefined behaviour when the
\* all-zero bytes are no value of $T: the evaluation may also be rejected
AllocRejected ==
    /\ pc = "alloc"
    /\ ~Cur.zeroValid /\ LEN > 0
    /\ pc' = "ub"
    /\ UNCHANGED <<prog, decls, consts, s, init, LEN, arr, base, k, i, ARR, writes>>

\* lib.rs:279-280  the next repetition: let mut i = 0
BeginSeg ==
    /\ pc = "seg" /\ k <= Len(s)
    /\ i' = 0
    /\ pc' = "loop"
    /\ UNCHANGED <<prog, decls, consts, s, init, LEN, arr, base, k, ARR, writes>>

\* lib.rs:281-284  one turn of the while loop; an index past the array
\* panics
CopyElem ==
    /\ pc = "loop" /\ LoopCond(i, s[k])
    /\ IF WriteIndex(base, i) < LEN
       THEN /\ arr' = [arr EXCEPT ![WriteIndex(base, i) + 1] = s[k][i + 1]]
            /\ writes' = [writes EXCEPT ![WriteIndex(base, i) + 1] = @ + 1]
            /\ i' = i + 1
            /\ UNCHANGED pc
       ELSE /\ pc' = "oob"
            /\ UNCHANGED <<arr, writes, i>>
    /\ UNCHANGED <<prog, decls, consts, s, init, LEN, base, k, ARR>>

\* lib.rs:281,285-286  the loop ends: base += $s.len()
EndSeg ==
    /\ pc = "loop" /\ ~LoopCond(i, s[k])
    /\ base' = AdvanceBase(base, s[k])
    /\ k' = k + 1
    /\ i' = 0
    /\ pc' = "seg"
    /\ UNCHANGED <<prog, decls, consts, s, init, LEN, arr, ARR, writes>>

\* lib.rs:287-288  if base != LEN { panic!("invalid length"); } arr
CheckLen ==
    /\ pc = "seg" /\ k > Len(s)
    /\ IF base # LEN
       THEN /\ pc' = "panic"
            /\ UNCHANGED ARR
       ELSE /\ ARR' = arr
            /\ pc' = "ret"
    /\ UNCHANGED <<prog, decls, consts, s, init, LEN, arr, base, k, i, writes>>

\* lib.rs:290, 127  &ARR is the value of the constant (for concat!, taken
\* for a &str); the next declaration follows
Return ==
    /\ pc = "ret"
    /\ consts' = Append(consts,
          IF Cur.macro = "concat" THEN FromUtf8Unchecked(ARR) ELSE ARR)
    /\ pc' = IF prog = <<>> THEN "done" ELSE "call"
    /\ s' = <<>> /\ init' = 0 /\ LEN' = 0 /\ arr' = <<>> /\ base' = 0
    /\ k' = 0 /\ i' = 0 /\ ARR' = <<>> /\ writes' = <<>>
    /\ UNCHANGED <<prog, decls>>

Next ==
    \/ ConcatSlices
    \/ Concat
    \/ ConcatBytes
    \/ ConcatSlicesEmpty
    \/ ComputeLen
    \/ Alloc
    \/ AllocRejected
    \/ BeginSeg
    \/ CopyElem
    \/ EndSeg
    \/ CheckLen
    \/ Return

Spec == Init /\ [][Next]_vars

\* ================================================================= claims
RECURSIVE Flatten(_)
\* the segments of ss written one after the other
Flatten(ss) == IF ss = <<>> THEN <<>> ELSE Head(ss) \o Flatten(Tail(ss))

\* the position before the first element of segment j in the result
Offset(ss, j) == SumLen(SubSeq(ss, 1, j - 1))

Started == decls # <<>>

\* C1: when concat_slices! with one or more segments has finished, the
\* element at local offset q of segment j stands at position Offset(j) + q
\* of the result, and the result holds nothing else.
C1_OrderPreserved ==
    (Started /\ pc = "ret" /\ Cur.macro = "concat_slices" /\ s # <<>>) =>
        /\ Len(ARR) = SumLen(s)
        /\ \A j \in 1..Len(s) : \A q \in 1..Len(s[j]) :
              ARR[Offset(s, j) + q] = s[j][q]

C1_Witness ==
    /\ Started /\ pc = "ret" /\ Cur.macro = "concat_slices"
    /\ Len(s) >= 2 /\ s[1] # <<>> /\ s[2] # <<>> /\ s[1][1] # s[2][1]
    /\ ARR = s[1] \o s[2]

\* C2: the result of any of the three macros is as long as its segments
\* together, empty segments and the empty list included; LEN is that sum
\* before the buffer exists, the buffer has LEN slots, and LEN does not
\* change while the buffer is assembled.
C2_LengthLaw ==
    /\ []((Started /\ pc = "ret") =>
            Len(s) = Len(Cur.args) /\ Len(ARR) = SumLen(s))
    /\ [](pc \in {"alloc", "seg", "loop"} => LEN = SumLen(s))
    /\ [](pc \in {"seg", "loop"} => Len(arr) = LEN)
    /\ [][(pc \in {"alloc", "seg", "loop"}) => (LEN' = LEN)]_vars

C2_Witness ==
    /\ Started /\ pc = "ret" /\ Len(s) >= 3
    /\ \E j \in 1..Len(s) : s[j] = <<>>
    /\ Len(ARR) >= 2 /\ Len(ARR) = LEN

\* C3: a call of concat!, concat_bytes! or concat_slices! with no segment,
\* with or without a trailing comma, yields the empty value and reaches
\* neither a panic nor a rejected evaluation.
C3_EmptyCall ==
    (Started /\ Cur.args = <<>>) =>
        /\ pc \in {"slices", "ret", "call", "done"}
        /\ (pc = "ret" => ARR = <<>>)
        /\ (pc \in {"call", "done"} => consts[Len(decls)] = <<>>)

C3_Witness ==
    /\ Len(decls) = 3 /\ pc = "call"
    /\ decls[2].args = <<>> /\ ~decls[2].trailing
    /\ decls[3].args = <<>> /\ decls[3].trailing
    /\ consts[2] = <<>> /\ consts[3] = <<>>

\* the declarations d are X1 = m!(a, b), X2 = m!(X1, c), X3 = m!(b, c),
\* X4 = m!(a, X3), X5 = m!(a, b, c)
IsNested(d) ==
    /\ Len(d) = 5
    /\ Len(d[1].args) = 2 /\ Len(d[2].args) = 2
    /\ LET a == d[1].args[1]
           b == d[1].args[2]
           c == d[2].args[2]
       IN  /\ {a.kind, b.kind, c.kind} \cap {"const"} = {}
           /\ d[2].args[1] = Arg("const", <<1>>)
           /\ d[3].args = <<b, c>>
           /\ d[4].args = <<a, Arg("const", <<3>>)>>
           /\ d[5].args = <<a, b, c>>

\* C4: concat(concat(a, b), c), concat(a, concat(b, c)) and concat(a, b, c)
\* are the same value, the inner result being a constant segment of the
\* outer call.
C4_Associative ==
    (pc = "done" /\ IsNested(decls)) =>
        consts[2] = consts[4] /\ consts[4] = consts[5]

C4_Witness ==
    /\ pc = "done" /\ IsNested(decls)
    /\ consts[1] # <<>> /\ consts[3] # <<>>
    /\ Len(consts[5]) > Len(consts[1]) /\ Len(consts[5]) > Len(consts[3])
    /\ consts[2] = consts[5]

\* C5: a call with exactly one segment, with or without a trailing comma,
\* yields that segment: the same length and the same element at every
\* index.
C5_Identity ==
    (Started /\ pc = "ret" /\ Len(Cur.args) = 1) =>
        /\ ARR = s[1]
        /\ (Cur.args[1].kind = "expr" => ARR = Cur.args[1].val)
        /\ (Cur.args[1].kind = "const" => ARR = consts[Cur.args[1].val[1]])
        /\ (Cur.args[1].kind \in {"str", "bstr"} => Len(ARR) >= Len(Cur.args[1].val))

C5_Witness ==
    /\ Started /\ pc = "ret" /\ Len(Cur.args) = 1 /\ Cur.trailing
    /\ Cur.args[1].kind = "expr" /\ Len(ARR) >= 2 /\ ARR = Cur.args[1].val

\* the text a segment of concat! stands for
Normalized(a, cs) ==
    IF a.kind \in {"expr", "const"} THEN EvalExpr(a, cs) ELSE StdConcat(a)

\* "test10btrue", "one2" and "before one2 after"
Test10bTrue == <<116, 101, 115, 116, 49, 48, 98, 116, 114, 117, 101>>
One2 == <<111, 110, 101, 50>>
BeforeOne2After ==
    <<98, 101, 102, 111, 114, 101, 32, 111, 110, 101, 50, 32, 97, 102, 116, 101, 114>>

\* C6: concat! yields the texts of its segments from left to right, a
\* literal standing for its canonical text and an expression for its value;
\* "test", 10, 'b', true gives "test10btrue", and "before ", the constant
\* "one2", " after" gives "before one2 after".
C6_TextConcat ==
    /\ (Started /\ pc = "ret" /\ Cur.macro = "concat") =>
          ARR = Flatten([j \in 1..Len(Cur.args) |-> Normalized(Cur.args[j], consts)])
    /\ (pc = "done" /\ decls = ConcatSmoke) =>
          /\ consts[1] = Test10bTrue
          /\ consts[6] = One2
          /\ consts[7] = BeforeOne2After

C6_Witness ==
    /\ pc = "done" /\ decls = ConcatSmoke
    /\ consts[1] = Test10bTrue /\ consts[7] = BeforeOne2After

\* C7: when every segment of concat! is valid UTF-8, the bytes taken for a
\* &str are the bytes of the segments in order and are valid UTF-8.
C7_ValidUtf8 ==
    (Started /\ pc = "ret" /\ Cur.macro = "concat"
        /\ \A j \in 1..Len(s) : ValidUtf8(s[j])) =>
        /\ ARR = Flatten(s)
        /\ ValidUtf8(FromUtf8Unchecked(ARR))

C7_Witness ==
    /\ Started /\ pc = "ret" /\ Cur.macro = "concat"
    /\ Len(s) >= 2 /\ Len(s[1]) = 2 /\ s[1][1] >= 194 /\ s[2] # <<>>
    /\ ValidUtf8(ARR)

\* C8: when concat_slices! has assembled its buffer, every slot was
\* assigned exactly once, by a segment element, so the result is the
\* segments in order whatever the initializer is and whether or not one was
\* given.
C8_PrefillUnobservable ==
    (Started /\ pc = "ret" /\ Cur.macro = "concat_slices" /\ s # <<>>) =>
        /\ \A p \in 1..LEN : writes[p] = 1
        /\ ARR = Flatten(s)

C8_Witness ==
    /\ Started /\ pc = "ret" /\ Cur.macro = "concat_slices"
    /\ Cur.hasInit /\ init # 0 /\ Len(ARR) >= 2
    /\ \A p \in 1..Len(ARR) : ARR[p] # init /\ writes[p] = 1

\* C9: in concat_slices! with an initializer, every slot of the buffer
\* that no segment element was copied to yet holds the initializer.
C9_InitializerFills ==
    (Started /\ Cur.hasInit /\ pc \in {"seg", "loop"}) =>
        \A p \in 1..LEN : writes[p] = 0 => arr[p] = init

\* C10: base is 0 when the buffer is made, never decreases, is the summed
\* length of the segments copied so far; every write index is below LEN,
\* the final base is LEN, and neither panic is reached.
C10_RunningOffset ==
    /\ [](pc \in {"seg", "loop"} => base = Offset(s, k) /\ base <= LEN)
    /\ []((pc = "loop" /\ LoopCond(i, s[k])) => WriteIndex(base, i) < LEN)
    /\ []((pc = "seg" /\ k > Len(s)) => base = LEN)
    /\ [](pc \notin {"panic", "oob"})
    /\ [][(pc = "alloc" /\ pc' = "seg") => (base' = 0)]_vars
    /\ [][(pc \in {"seg", "loop"} /\ pc' \in {"seg", "loop"}) => (base' >= base)]_vars

C10_Witness ==
    /\ pc = "seg" /\ k > Len(s) /\ Len(s) >= 3
    /\ base = LEN /\ base >= 2 /\ s[1] # <<>> /\ s[3] # <<>>

====
